---- MODULE Spec2Model ----
(***************************************************************************)
(* A model of the two session converters of engram-memory:                 *)
(*   scripts/convert_export.py   (format A, JSONLConverter)                *)
(*   scripts/convert_opencode.py (format B, OpenCodeConverter)             *)
(*                                                                         *)
(* Texts are strings, handled character by character as the Python code    *)
(* handles them.  A string literal of this language cannot hold the        *)
(* character U+0060 (the backtick of a Markdown fence), so that one        *)
(* character is written "~" throughout; no input uses "~" for anything     *)
(* else.                                                                   *)
(***************************************************************************)
EXTENDS Integers, Sequences, FiniteSets, TLC

VARIABLES
    nIn,        \* SpecNorm: the text handed to _collapse_code_blocks
    nOut,       \* SpecNorm: its result
    nOut2,      \* SpecNorm: the result of running it again on nOut
    nPc,        \* SpecNorm: "in" | "once" | "twice"
    sFmt,       \* SpecSession: "A" (convert_export) or "B" (convert_opencode)
    sIn,        \* SpecSession: the session handed to a fresh converter
    sOut,       \* SpecSession: what the conversion did
    sPc,        \* SpecSession: "in" | "done"
    fmt,        \* Spec: "A" or "B", the converter that runs
    pc,         \* Spec: "start" | "loop" | "done" | "crashed"
    discovered, \* Spec: the paths glob returned, in the order it returned them
    queue,      \* Spec: the sorted paths convert_directory has yet to attempt
    processed_sessions, \* Spec: the converter's set of seen session ids
    agent_case_map,     \* Spec: the converter's agent casing map (format B)
    files,      \* Spec: the output directory, file name -> document
    count,      \* Spec: convert_directory's count of successful conversions
    results     \* Spec: what each attempted conversion did, in order

nvars == <<nIn, nOut, nOut2, nPc>>
svars == <<sFmt, sIn, sOut, sPc>>
rvars == <<fmt, pc, discovered, queue, processed_sessions, agent_case_map, files,
           count, results>>
vars == <<nvars, svars, rvars>>

(***************************************************************************)
(* Strings                                                                 *)
(***************************************************************************)

Min(S) == CHOOSE x \in S : \A y \in S : x <= y
Max(S) == CHOOSE x \in S : \A y \in S : x >= y

\* s[i] of Python (1-based here), as a one-character string
CharAt(s, i) == SubSeq(s, i, i)

\* c * n
RECURSIVE Rep(_, _)
Rep(c, n) ==
    IF n = 0 THEN ""
    ELSE IF n % 2 = 0 THEN LET h == Rep(c, n \div 2) IN h \o h
    ELSE c \o Rep(c, n - 1)

\* str.startswith
StartsWith(s, p) == Len(s) >= Len(p) /\ SubSeq(s, 1, Len(p)) = p

\* the `in` operator on strings
Contains(s, sub) ==
    \E i \in 1..(Len(s) - Len(sub) + 1) : SubSeq(s, i, i + Len(sub) - 1) = sub

\* the characters str.strip() removes
Whitespace == {" ", "\t", "\n", "\r", "\f"}

\* the index of the first character of s, from i on, that is not in chars
RECURSIVE FirstNotIn(_, _, _)
FirstNotIn(s, i, chars) ==
    IF i > Len(s) \/ CharAt(s, i) \notin chars THEN i ELSE FirstNotIn(s, i + 1, chars)

\* the index of the last character of s, up to i, that is not in chars
RECURSIVE LastNotIn(_, _, _)
LastNotIn(s, i, chars) ==
    IF i < 1 \/ CharAt(s, i) \notin chars THEN i ELSE LastNotIn(s, i - 1, chars)

\* str.strip(chars)
StripChars(s, chars) == SubSeq(s, FirstNotIn(s, 1, chars), LastNotIn(s, Len(s), chars))

\* str.strip()
Strip(s) == StripChars(s, Whitespace)

\* s[:n]
Prefix(s, n) == SubSeq(s, 1, IF Len(s) < n THEN Len(s) ELSE n)

UpperLetters == "ABCDEFGHIJKLMNOPQRSTUVWXYZ"
LowerLetters == "abcdefghijklmnopqrstuvwxyz"
Digits == "0123456789"

LowerChar(c) ==
    IF \E i \in 1..Len(UpperLetters) : CharAt(UpperLetters, i) = c
    THEN CharAt(LowerLetters, CHOOSE i \in 1..Len(UpperLetters) : CharAt(UpperLetters, i) = c)
    ELSE c

\* str.lower()
RECURSIVE Lower(_)
Lower(s) ==
    IF Len(s) = 0 THEN ""
    ELSE IF Len(s) = 1 THEN LowerChar(s)
    ELSE LET h == Len(s) \div 2
         IN Lower(SubSeq(s, 1, h)) \o Lower(SubSeq(s, h + 1, Len(s)))

\* str.replace(old, new) for a one-character old
RECURSIVE Replace(_, _, _)
Replace(s, old, new) ==
    IF Len(s) = 0 THEN ""
    ELSE IF Len(s) = 1 THEN (IF s = old THEN new ELSE s)
    ELSE LET h == Len(s) \div 2
         IN Replace(SubSeq(s, 1, h), old, new) \o Replace(SubSeq(s, h + 1, Len(s)), old, new)

\* the characters the slug pattern [^a-z0-9]+ leaves alone
IsSlugChar(c) ==
    \/ \E i \in 1..Len(LowerLetters) : CharAt(LowerLetters, i) = c
    \/ \E i \in 1..Len(Digits) : CharAt(Digits, i) = c

\* re.sub(r"[^a-z0-9]+", "-", s), for the characters lo..hi of s: every run
\* of other characters becomes one hyphen
RECURSIVE SubRuns(_, _, _)
SubRuns(s, lo, hi) ==
    IF lo > hi THEN ""
    ELSE IF lo = hi
    THEN (IF IsSlugChar(CharAt(s, lo)) THEN CharAt(s, lo)
          ELSE IF lo = 1 \/ IsSlugChar(CharAt(s, lo - 1)) THEN "-" ELSE "")
    ELSE LET h == (lo + hi) \div 2 IN SubRuns(s, lo, h) \o SubRuns(s, h + 1, hi)

\* str.split("\n"): the segments between the newlines, at least one
RECURSIVE SplitFrom(_, _, _)
SplitFrom(text, nl, start) ==
    LET rest == {p \in nl : p >= start}
    IN IF rest = {} THEN <<SubSeq(text, start, Len(text))>>
       ELSE LET p == Min(rest)
            IN <<SubSeq(text, start, p - 1)>> \o SplitFrom(text, nl, p + 1)

Split(text) == SplitFrom(text, {i \in 1..Len(text) : CharAt(text, i) = "\n"}, 1)

\* "\n".join(lines)
RECURSIVE Join(_)
Join(lines) ==
    IF lines = <<>> THEN ""
    ELSE IF Len(lines) = 1 THEN lines[1]
    ELSE lines[1] \o "\n" \o Join(Tail(lines))

\* str(n) for n >= 0
RECURSIVE ToStr(_)
ToStr(n) ==
    IF n < 10 THEN CharAt(Digits, n + 1)
    ELSE ToStr(n \div 10) \o CharAt(Digits, (n % 10) + 1)

(***************************************************************************)
(* The text normalizer: _collapse_code_blocks (the same code in both       *)
(* converters)                                                             *)
(***************************************************************************)

Backtick == "~"
FenceMarker == Backtick \o Backtick \o Backtick

\* a block longer than this is collapsed
MaxVerbatimLines == 10
\* a line longer than this may be a file dump
LongLineLimit == 500

Indicators == {"def ", "class ", "import ", "function ", "{"}
FileDumpLine == "[file dump: long code output stripped]"

\* line.strip().startswith(fence): what opens a block, and what ends it
IsFenceLine(line) == StartsWith(Strip(line), FenceMarker)

\* the inner while loop: the index of the first fence line after i, or
\* Len(lines) + 1 when there is none
RECURSIVE BlockEnd(_, _)
BlockEnd(lines, i) ==
    IF i <= Len(lines) /\ ~IsFenceLine(lines[i]) THEN BlockEnd(lines, i + 1) ELSE i

\* the label of a collapsed block
BlockLabel(code_lines) ==
    LET first_line == Strip(code_lines[1])
        tag == IF StartsWith(first_line, FenceMarker)
               THEN Strip(SubSeq(first_line, 4, Len(first_line)))
               ELSE first_line
    IN IF tag # "" THEN tag
       ELSE IF Len(code_lines) > 1 THEN Strip(code_lines[2]) ELSE "code"

CollapsedLine(code_lines) ==
    "[code block: " \o BlockLabel(code_lines) \o "... ("
        \o ToStr(Len(code_lines)) \o " lines)]"

\* (mutant) a block of exactly 10 lines is collapsed too
EmitBlockFromTen(code_lines) ==
    IF Len(code_lines) >= MaxVerbatimLines
    THEN <<CollapsedLine(code_lines)>>
    ELSE code_lines

\* what a block contributes to the result
EmitBlock(code_lines) ==
    IF Len(code_lines) > MaxVerbatimLines
    THEN <<CollapsedLine(code_lines)>>
    ELSE code_lines

\* (mutant) a line of exactly 500 characters counts as long
IsFileDumpFromLimit(line) ==
    Len(line) >= LongLineLimit /\ \E ind \in Indicators : Contains(line, ind)

IsFileDump(line) ==
    Len(line) > LongLineLimit /\ \E ind \in Indicators : Contains(line, ind)

\* what a line outside a block contributes to the result
EmitLine(line) == IF IsFileDump(line) THEN FileDumpLine ELSE line

\* the outer while loop, from index i on
RECURSIVE CollapseFrom(_, _, _)
CollapseFrom(lines, i, result) ==
    IF i > Len(lines) THEN result
    ELSE IF IsFenceLine(lines[i])
    THEN LET j == BlockEnd(lines, i + 1)
             last == IF j <= Len(lines) THEN j ELSE Len(lines)
             code_lines == SubSeq(lines, i, last)
         IN CollapseFrom(lines, last + 1, result \o EmitBlock(code_lines))
    ELSE CollapseFrom(lines, i + 1, Append(result, EmitLine(lines[i])))

CollapseLines(lines) == CollapseFrom(lines, 1, <<>>)

CollapseCodeBlocks(text) == Join(CollapseLines(Split(text)))

(***************************************************************************)
(* Decoded JSON, as far as the converters look at it.  An optional value   *)
(* is a record [some, v]: None of Python (a missing key, a JSON null) is   *)
(* NoneVal.                                                                *)
(***************************************************************************)

NoneVal == [some |-> FALSE, v |-> ""]
Some(x) == [some |-> TRUE, v |-> x]
\* Python's truth value of an optional string
Truthy(o) == o.some /\ o.v # ""

\* a content block of a format A message.  dict: the block is an object;
\* type: its "type"; has_text, text: its "text" key; synthetic: its
\* "synthetic" key
Block(type, has_text, text, synthetic) ==
    [dict |-> TRUE, type |-> type, has_text |-> has_text, text |-> text,
     synthetic |-> synthetic]
TextBlock(text) == Block("text", TRUE, text, FALSE)
SyntheticTextBlock(text) == Block("text", TRUE, text, TRUE)
TextBlockNoText == Block("text", FALSE, "", FALSE)
ToolResultBlock == Block("tool_result", FALSE, "", FALSE)
ToolUseBlock == Block("tool_use", FALSE, "", FALSE)
ThinkingBlock == Block("thinking", TRUE, "pondering", FALSE)
NonDictBlock == [dict |-> FALSE, type |-> "", has_text |-> FALSE, text |-> "",
                 synthetic |-> FALSE]

\* a message content: a string, a list of blocks, or anything else
StrContent(str) == [t |-> "str", s |-> str, l |-> <<>>]
ListContent(blocks) == [t |-> "list", s |-> "", l |-> blocks]
NullContent == [t |-> "null", s |-> "", l |-> <<>>]

\* one line of a format A file.  json: "blank" (only whitespace), "invalid"
\* (json.loads raises JSONDecodeError), "array" (valid JSON that is no
\* object) or "object"; the other fields are the object's keys.  message:
\* "absent", "object" or "other" (a value that is no object).
Line(json, type, message, isMeta, role, content, timestamp, sessionId, cwd) ==
    [json |-> json, type |-> type, message |-> message, isMeta |-> isMeta,
     role |-> role, content |-> content, timestamp |-> timestamp,
     sessionId |-> sessionId, cwd |-> cwd]

(***************************************************************************)
(* Format A: scripts/convert_export.py                                     *)
(***************************************************************************)

\* _is_command_message: re.search(r"<(local-)?command-", content)
IsCommandMessage(content) ==
    Contains(content, "<command-") \/ Contains(content, "<local-command-")

\* _extract_text_blocks for a list: the texts of the blocks of type "text"
\* that have a "text" key
RECURSIVE ExtractTextBlocks(_)
ExtractTextBlocks(blocks) ==
    IF blocks = <<>> THEN <<>>
    ELSE LET b == Head(blocks)
         IN (IF b.dict /\ b.type = "text" /\ b.has_text THEN <<b.text>> ELSE <<>>)
                \o ExtractTextBlocks(Tail(blocks))

NonConversationTypes == {"queue-operation", "file-history-snapshot", "system", "summary"}

\* _should_skip_message
ShouldSkipMessage(obj) ==
    \/ obj.type \in NonConversationTypes
    \/ obj.message = "absent"
    \/ obj.isMeta

\* The result of an extraction: [raise, some, v].  raise: the call raised
\* (message.get on a value that is no object); otherwise Optional[str].
Raised == [raise |-> TRUE, some |-> FALSE, v |-> ""]
Returned(o) == [raise |-> FALSE, some |-> o.some, v |-> o.v]

\* _extract_user_message
ExtractUserMessage(obj) ==
    IF ShouldSkipMessage(obj) THEN Returned(NoneVal)
    ELSE IF obj.message # "object" THEN Raised
    ELSE IF obj.role # "user" THEN Returned(NoneVal)
    ELSE IF obj.content.t = "str"
    THEN (IF IsCommandMessage(obj.content.s) THEN Returned(NoneVal)
          ELSE Returned(Some(Strip(obj.content.s))))
    ELSE IF obj.content.t = "list"
    THEN LET blocks == obj.content.l
             has_text == \E i \in 1..Len(blocks) : blocks[i].dict /\ blocks[i].type = "text"
             has_tool_result ==
                \E i \in 1..Len(blocks) : blocks[i].dict /\ blocks[i].type = "tool_result"
             texts == ExtractTextBlocks(blocks)
         IN IF has_tool_result /\ ~has_text THEN Returned(NoneVal)
            ELSE IF texts # <<>> THEN Returned(Some(Strip(Join(texts))))
            ELSE Returned(NoneVal)
    ELSE Returned(NoneVal)

\* _extract_assistant_message
ExtractAssistantMessage(obj) ==
    IF ShouldSkipMessage(obj) THEN Returned(NoneVal)
    ELSE IF obj.message # "object" THEN Raised
    ELSE IF obj.role # "assistant" THEN Returned(NoneVal)
    ELSE IF obj.content.t # "list" THEN Returned(NoneVal)
    ELSE LET texts == ExtractTextBlocks(obj.content.l)
         IN IF texts # <<>> THEN Returned(Some(Strip(Join(texts))))
            ELSE Returned(NoneVal)

\* the locals of convert_jsonl before its first line is read
ParseStart ==
    [err |-> FALSE, messages |-> <<>>, first_timestamp |-> NoneVal,
     first_user_message |-> NoneVal, session_id |-> NoneVal, project_path |-> NoneVal]

\* one turn of the loop over the lines of the file.  err: an exception
\* reached the handler around the loop.
ParseLine(acc, line) ==
    IF acc.err \/ line.json \in {"blank", "invalid"} THEN acc
    ELSE IF line.json # "object" THEN [acc EXCEPT !.err = TRUE]
    ELSE LET first == ~acc.first_timestamp.some
             meta == IF first
                     THEN [acc EXCEPT !.first_timestamp = line.timestamp,
                                      !.session_id = line.sessionId,
                                      !.project_path = line.cwd]
                     ELSE acc
             user == ExtractUserMessage(line)
             assistant == ExtractAssistantMessage(line)
         IN IF user.raise THEN [meta EXCEPT !.err = TRUE]
            ELSE IF user.some /\ user.v # ""
            THEN [meta EXCEPT
                    !.first_user_message =
                        IF meta.first_user_message.some THEN @ ELSE Some(user.v),
                    !.messages = Append(@, [role |-> "user", text |-> user.v,
                                            timestamp |-> line.timestamp])]
            ELSE IF assistant.raise THEN [meta EXCEPT !.err = TRUE]
            ELSE IF assistant.some /\ assistant.v # ""
            THEN [meta EXCEPT
                    !.messages = Append(@, [role |-> "assistant", text |-> assistant.v,
                                            timestamp |-> line.timestamp])]
            ELSE meta

\* the loop over the lines of the file
RECURSIVE ParseLines(_, _)
ParseLines(acc, lines) ==
    IF lines = <<>> THEN acc ELSE ParseLines(ParseLine(acc, Head(lines)), Tail(lines))

\* a string of the shape dddd-dd-ddTdd:dd:dd, with or without a final Z:
\* what datetime.fromisoformat accepts among the timestamps of the inputs
IsIsoTimestamp(ts) ==
    /\ Len(ts) \in {19, 20}
    /\ \A i \in {1, 2, 3, 4, 6, 7, 9, 10, 12, 13, 15, 16, 18, 19} :
            \E d \in 1..Len(Digits) : CharAt(Digits, d) = CharAt(ts, i)
    /\ CharAt(ts, 5) = "-" /\ CharAt(ts, 8) = "-" /\ CharAt(ts, 11) = "T"
    /\ CharAt(ts, 14) = ":" /\ CharAt(ts, 17) = ":"
    /\ Len(ts) = 20 => CharAt(ts, 20) = "Z"

\* _format_timestamp: HH:MM, or ??:?? when the timestamp does not parse
FormatTimestamp(ts) == IF IsIsoTimestamp(ts) THEN SubSeq(ts, 12, 16) ELSE "??:??"

\* _get_date_from_timestamp
GetDateFromTimestamp(ts) == IF IsIsoTimestamp(ts) THEN SubSeq(ts, 1, 10) ELSE "unknown-date"

\* the longest summary taken from a first user message
SummaryMaxLen == 60
\* the longest slug
SlugMaxLen == 40

\* The "summary" of the file's entry in sessions-index.json, as
\* _load_session_metadata and metadata.get("summary") give it: t is "none"
\* (no sidecar, no entry, no key, null), "str" or "num" (a JSON number
\* other than 0)
NoSummary == [t |-> "none", s |-> ""]
StrSummary(str) == [t |-> "str", s |-> str]
NumSummary == [t |-> "num", s |-> ""]

\* _get_summary: [str, v], str telling whether the value is a string
GetSummary(meta, first_user_message) ==
    IF meta.t = "num" THEN [str |-> FALSE, v |-> ""]
    ELSE IF meta.t = "str" /\ meta.s # "" THEN [str |-> TRUE, v |-> meta.s]
    ELSE IF Truthy(first_user_message)
    THEN LET m == first_user_message.v
             cut == Replace(Prefix(m, SummaryMaxLen), "\n", " ")
         IN [str |-> TRUE, v |-> IF Len(m) > SummaryMaxLen THEN cut \o "..." ELSE cut]
    ELSE [str |-> TRUE, v |-> "Untitled Session"]

\* re.sub(r"[^a-z0-9]+", "-", title.lower())[:40].strip("-")
SlugOf(title) ==
    LET low == Lower(title)
    IN StripChars(Prefix(SubRuns(low, 1, Len(low)), SlugMaxLen), {"-"})

FileName(date_str, time_str, slug) ==
    "session_" \o date_str \o "_" \o time_str \o "_" \o slug \o ".txt"

\* An output document: the header fields and the turn blocks
\* ([HH:MM] speaker: / text / blank line) that "\n".join(output_lines) holds
NoDoc ==
    [title |-> "", date |-> "", project |-> NoneVal, session_id |-> NoneVal,
     count |-> 0, turns |-> <<>>]

\* the turn blocks of format A
RECURSIVE RenderTurnsA(_)
RenderTurnsA(messages) ==
    IF messages = <<>> THEN <<>>
    ELSE LET msg == Head(messages)
         IN <<[stamp |-> IF Truthy(msg.timestamp)
                         THEN FormatTimestamp(msg.timestamp.v) ELSE "??:??",
               speaker |-> IF msg.role = "user" THEN "User" ELSE "Assistant",
               text |-> CollapseCodeBlocks(msg.text)]>>
            \o RenderTurnsA(Tail(messages))

\* A format A session file as convert_jsonl meets it.  exists, readable:
\* Path.exists() and open(..., "r") with the read of its lines; lines: its
\* lines; summary: its summary in the sidecar index; writable:
\* open(output_path, "w") and the write succeed
SessionFile(exists, readable, lines, summary, writable) ==
    [exists |-> exists, readable |-> readable, lines |-> lines,
     summary |-> summary, writable |-> writable]

\* What a conversion did.  ret: "true", "false" or "raise" (an exception
\* left the call); processed: processed_sessions afterwards; wrote, name,
\* doc: the file written, if any; parsed: the records were read to the end;
\* messages: the retained turns then
Outcome(ret, processed, wrote, name, doc, parsed, messages) ==
    [ret |-> ret, processed |-> processed, wrote |-> wrote, name |-> name,
     doc |-> doc, parsed |-> parsed, messages |-> messages]

\* (mutant) a session without retained turns goes on to be written
HasNoContentNever(messages) == FALSE

\* convert_jsonl, line 305, and convert_session, line 287: "if not messages"
HasNoContent(messages) == messages = <<>>

\* (mutant) the duplicate check is left out
IsDuplicateNever(session_id, processed) == FALSE

\* convert_jsonl, lines 309-312: the duplicate check
IsDuplicateA(session_id, processed) == Truthy(session_id) /\ session_id \in processed

\* convert_jsonl
ConvertJsonl(file, processed) ==
    LET p == ParseLines(ParseStart, file.lines)
        fail == Outcome("false", processed, FALSE, "", NoDoc, FALSE, <<>>)
    IN IF ~file.exists \/ ~file.readable \/ p.err THEN fail
       ELSE IF HasNoContent(p.messages) THEN [fail EXCEPT !.parsed = TRUE]
       ELSE IF IsDuplicateA(p.session_id, processed)
       THEN [fail EXCEPT !.parsed = TRUE, !.messages = p.messages]
       ELSE LET seen == IF Truthy(p.session_id)
                        THEN processed \cup {p.session_id} ELSE processed
                ts == p.first_timestamp
                date_str == IF Truthy(ts) THEN GetDateFromTimestamp(ts.v)
                            ELSE "unknown-date"
                time_str == Replace(IF Truthy(ts) THEN FormatTimestamp(ts.v) ELSE "00-00",
                                    ":", "-")
                summary == GetSummary(file.summary, p.first_user_message)
                name == FileName(date_str, time_str, SlugOf(summary.v))
                doc == [title |-> summary.v,
                        date |-> date_str \o " " \o Replace(time_str, "-", ":"),
                        project |-> IF Truthy(p.project_path) THEN p.project_path
                                    ELSE NoneVal,
                        session_id |-> IF Truthy(p.session_id) THEN p.session_id
                                       ELSE NoneVal,
                        count |-> Len(p.messages),
                        turns |-> RenderTurnsA(p.messages)]
            IN IF ~summary.str
               THEN Outcome("raise", seen, FALSE, "", NoDoc, TRUE, p.messages)
               ELSE IF ~file.writable
               THEN Outcome("false", seen, FALSE, "", NoDoc, TRUE, p.messages)
               ELSE Outcome("true", seen, TRUE, name, doc, TRUE, p.messages)

(***************************************************************************)
(* Format B: scripts/convert_opencode.py                                   *)
(***************************************************************************)

\* an optional integer (a millisecond epoch)
NoneInt == [some |-> FALSE, v |-> 0]
SomeInt(n) == [some |-> TRUE, v |-> n]
TruthyInt(o) == o.some /\ o.v # 0

\* the "text" or "title" key of an object: "absent", "str", or "null"
AbsentText == [t |-> "absent", s |-> ""]
StrText(str) == [t |-> "str", s |-> str]
NullText == [t |-> "null", s |-> ""]

\* A part file.  loads: _load_part gives an object; type, text, synthetic,
\* time_start: its "type", "text", "synthetic" and "time"."start"
PartFile(loads, type, text, synthetic, time_start) ==
    [loads |-> loads, type |-> type, text |-> text, synthetic |-> synthetic,
     time_start |-> time_start]

\* A message file, with the part files of its part directory in sorted
\* order.  part_dir: the directory exists
MessageFile(loads, id, time_created, role, agent, part_dir, parts) ==
    [loads |-> loads, id |-> id, time_created |-> time_created, role |-> role,
     agent |-> agent, part_dir |-> part_dir, parts |-> parts]

\* A session file, with the message files of its message directory in
\* sorted order.  message_dir: the directory exists; writable: as in format A
SessionJson(loads, id, parentID, title, message_dir, messages, writable) ==
    [loads |-> loads, id |-> id, parentID |-> parentID, title |-> title,
     message_dir |-> message_dir, messages |-> messages, writable |-> writable]

\* _should_skip_part
ShouldSkipPart(part) == part.type # "text" \/ part.synthetic

\* _extract_part_text: [raise, some, v]; None.strip() raises
ExtractPartText(part) ==
    IF ShouldSkipPart(part) THEN Returned(NoneVal)
    ELSE IF part.text.t = "null" THEN Raised
    ELSE LET text == Strip(part.text.s)
         IN IF text = "" THEN Returned(NoneVal) ELSE Returned(Some(text))

\* _get_part_timestamp
GetPartTimestamp(part, message_time_ms) ==
    IF TruthyInt(part.time_start) THEN part.time_start.v ELSE message_time_ms

\* the loop over the part files of one message: [err, messages]
RECURSIVE CollectParts(_, _, _)
CollectParts(acc, message, parts) ==
    IF acc.err \/ parts = <<>> THEN acc
    ELSE LET part == Head(parts)
             text == ExtractPartText(part)
             next == IF ~part.loads THEN acc
                     ELSE IF text.raise THEN [acc EXCEPT !.err = TRUE]
                     ELSE IF ~text.some THEN acc
                     ELSE [acc EXCEPT !.messages =
                            Append(@, [role |-> message.role, text |-> text.v,
                                       timestamp_ms |->
                                            GetPartTimestamp(part, message.time_created.v),
                                       agent |-> message.agent])]
         IN CollectParts(next, message, Tail(parts))

\* the loop over the message files: [err, messages, first_timestamp_ms]
RECURSIVE CollectMessages(_, _)
CollectMessages(acc, message_files) ==
    IF acc.err \/ message_files = <<>> THEN acc
    ELSE LET message == Head(message_files)
             timed == IF acc.first_timestamp_ms.some THEN acc
                      ELSE [acc EXCEPT !.first_timestamp_ms = message.time_created]
             next == IF ~message.loads \/ ~TruthyInt(message.time_created) THEN acc
                     ELSE IF ~Truthy(message.id) \/ ~message.part_dir THEN timed
                     ELSE CollectParts(timed, message, message.parts)
         IN CollectMessages(next, Tail(message_files))

\* (mutant) a turn goes before the turns of the same timestamp
RECURSIVE InsertBeforeEqual(_, _)
InsertBeforeEqual(sorted, m) ==
    IF sorted = <<>> THEN <<m>>
    ELSE IF sorted[Len(sorted)].timestamp_ms < m.timestamp_ms THEN Append(sorted, m)
    ELSE Append(InsertBeforeEqual(SubSeq(sorted, 1, Len(sorted) - 1), m),
                sorted[Len(sorted)])

\* list.sort(key=timestamp_ms): a stable sort, by insertion
RECURSIVE InsertByTime(_, _)
InsertByTime(sorted, m) ==
    IF sorted = <<>> THEN <<m>>
    ELSE IF sorted[Len(sorted)].timestamp_ms <= m.timestamp_ms THEN Append(sorted, m)
    ELSE Append(InsertByTime(SubSeq(sorted, 1, Len(sorted) - 1), m), sorted[Len(sorted)])

RECURSIVE SortByTime(_)
SortByTime(messages) ==
    IF messages = <<>> THEN <<>>
    ELSE InsertByTime(SortByTime(SubSeq(messages, 1, Len(messages) - 1)),
                      messages[Len(messages)])

TwoDigits(n) == CharAt(Digits, (n \div 10) + 1) \o CharAt(Digits, (n % 10) + 1)

\* _get_date_from_ms (UTC), for the instants of January 1970
GetDateFromMs(ms) == "1970-01-" \o TwoDigits((ms \div 86400000) + 1)

\* _get_time_from_ms and _format_timestamp_ms (UTC), sep being - or :
GetTimeFromMs(ms, sep) ==
    TwoDigits((ms \div 3600000) % 24) \o sep \o TwoDigits((ms \div 60000) % 60)

\* agent_str.split("-")[-1]
LastSegment(agent_str) ==
    LET hyphens == {i \in 1..Len(agent_str) : CharAt(agent_str, i) = "-"}
    IN IF hyphens = {} THEN agent_str
       ELSE SubSeq(agent_str, Max(hyphens) + 1, Len(agent_str))

\* (mutant) the casing of the latest turn replaces the one remembered
NormalizeAgentNameLastSeen(agent_str, map) ==
    IF agent_str = "" THEN [name |-> "", map |-> map]
    ELSE LET base_agent == LastSegment(agent_str)
             lower_base == Lower(base_agent)
             after == (lower_base :> base_agent) @@ map
         IN [name |-> after[lower_base], map |-> after]

\* _normalize_agent_name: [name, map], map being agent_case_map afterwards
NormalizeAgentName(agent_str, map) ==
    IF agent_str = "" THEN [name |-> "", map |-> map]
    ELSE LET base_agent == LastSegment(agent_str)
             lower_base == Lower(base_agent)
             after == IF lower_base \in DOMAIN map THEN map
                      ELSE (lower_base :> base_agent) @@ map
         IN [name |-> after[lower_base], map |-> after]

\* the turn blocks of format B: [turns, map]
RECURSIVE RenderTurnsB(_, _, _)
RenderTurnsB(turns, map, messages) ==
    IF messages = <<>> THEN [turns |-> turns, map |-> map]
    ELSE LET msg == Head(messages)
             agent == IF msg.role = "user" THEN [name |-> "", map |-> map]
                      ELSE NormalizeAgentName(msg.agent, map)
             speaker == IF msg.role = "user" THEN "User"
                        ELSE IF agent.name # "" THEN "Assistant (" \o agent.name \o ")"
                        ELSE "Assistant"
         IN RenderTurnsB(
                Append(turns, [stamp |-> GetTimeFromMs(msg.timestamp_ms, ":"),
                               speaker |-> speaker,
                               text |-> CollapseCodeBlocks(msg.text)]),
                agent.map, Tail(messages))

\* convert_session, lines 214-216: the duplicate check
IsDuplicateB(session_id, processed) == session_id \in processed

\* convert_session: [out, agents], agents being agent_case_map afterwards
ConvertSession(session, processed, agents) ==
    LET fail == Outcome("false", processed, FALSE, "", NoDoc, FALSE, <<>>)
        seen == processed \cup {session.id}
        c == CollectMessages([err |-> FALSE, messages |-> <<>>,
                              first_timestamp_ms |-> NoneInt], session.messages)
    IN IF ~session.loads \/ Truthy(session.parentID)
            \/ IsDuplicateB(session.id, processed)
       THEN [out |-> fail, agents |-> agents]
       ELSE IF ~Truthy(session.id) \/ ~session.message_dir \/ session.messages = <<>>
       THEN [out |-> [fail EXCEPT !.processed = seen], agents |-> agents]
       ELSE IF c.err
       THEN [out |-> Outcome("raise", seen, FALSE, "", NoDoc, FALSE, <<>>),
             agents |-> agents]
       ELSE IF HasNoContent(c.messages) \/ ~TruthyInt(c.first_timestamp_ms)
       THEN [out |-> [fail EXCEPT !.processed = seen, !.parsed = TRUE],
             agents |-> agents]
       ELSE IF session.title.t = "null"
       THEN [out |-> Outcome("raise", seen, FALSE, "", NoDoc, TRUE, SortByTime(c.messages)),
             agents |-> agents]
       ELSE LET messages == SortByTime(c.messages)
                ms == c.first_timestamp_ms.v
                title == IF session.title.t = "str" THEN session.title.s
                         ELSE "Untitled Session"
                slug == SlugOf(title)
                name == FileName(GetDateFromMs(ms), GetTimeFromMs(ms, "-"), slug)
                r == RenderTurnsB(<<>>, agents, messages)
                doc == [title |-> title \o " (" \o slug \o ")",
                        date |-> GetDateFromMs(ms) \o " " \o GetTimeFromMs(ms, ":"),
                        project |-> NoneVal,
                        session_id |-> session.id,
                        count |-> Len(messages),
                        turns |-> r.turns]
            IN IF ~session.writable
               THEN [out |-> Outcome("false", seen, FALSE, "", NoDoc, TRUE, messages),
                     agents |-> r.map]
               ELSE [out |-> Outcome("true", seen, TRUE, name, doc, TRUE, messages),
                     agents |-> r.map]

(***************************************************************************)
(* SpecNorm: the normalizer applied to a text, and again to its own output *)
(***************************************************************************)

\* the longest run of filler lines in an input text
FillRun == 9
\* the number of chunks an input text is made of, at most
MaxChunks == 4

PaddedLine == "  first  "
BareFence == FenceMarker
TaggedFence == " " \o FenceMarker \o "py "
LongCodeLine == "import " \o Rep("x", LongLineLimit - 6)
LimitCodeLine == "import " \o Rep("x", LongLineLimit - 7)
LongProseLine == Rep("x", LongLineLimit + 1)
FillLine == "x = 1"

Fill(k) == [i \in 1..k |-> FillLine]

\* an input text is a few chunks, each one line or a run of filler lines
Chunks ==
    { <<PaddedLine>>, <<BareFence>>, <<TaggedFence>>,
      <<LongCodeLine>>, <<LimitCodeLine>>, <<LongProseLine>>, Fill(FillRun) }

RECURSIVE Flatten(_)
Flatten(cs) == IF cs = <<>> THEN <<>> ELSE Head(cs) \o Flatten(Tail(cs))

NormInputs ==
    { Join(Flatten(cs)) : cs \in UNION { [1..n -> Chunks] : n \in 0..MaxChunks } }

\* the variables of the other specifications, at rest
NormIdle == nIn = "" /\ nOut = "" /\ nOut2 = "" /\ nPc = "off"
SessionIdle == sFmt = "" /\ sIn = <<>> /\ sOut = <<>> /\ sPc = "off"
RunIdle ==
    /\ fmt = "" /\ pc = "off" /\ discovered = <<>> /\ queue = <<>>
    /\ processed_sessions = {} /\ agent_case_map = <<>> /\ files = <<>>
    /\ count = 0 /\ results = <<>>

NormInit ==
    /\ nIn \in NormInputs
    /\ nOut = ""
    /\ nOut2 = ""
    /\ nPc = "in"
    /\ SessionIdle /\ RunIdle

Normalize ==
    /\ nPc = "in"
    /\ nOut' = CollapseCodeBlocks(nIn)
    /\ nPc' = "once"
    /\ UNCHANGED <<nIn, nOut2, svars, rvars>>

Renormalize ==
    /\ nPc = "once"
    /\ nOut2' = CollapseCodeBlocks(nOut)
    /\ nPc' = "twice"
    /\ UNCHANGED <<nIn, nOut, svars, rvars>>

NormNext == Normalize \/ Renormalize

SpecNorm == NormInit /\ [][NormNext]_vars

(***************************************************************************)
(* Claims about the normalizer (checked under SpecNorm).  The blocks of    *)
(* the input are found here without the normalizer's loop: any fence line  *)
(* ends the block the fence line before it opened, so the fence lines of a *)
(* text open and end blocks in turn.                                       *)
(***************************************************************************)

\* Where the blocks of the lines L lie: the blocks as pairs <<first line,
\* last line>>, the lines inside a block, and the lines that stand for one
\* output line each (a line outside every block, a line of a block of at
\* most 10 lines, the opening line of a longer block).
Layout(L) ==
    LET fence == {i \in 1..Len(L) : StartsWith(Strip(L[i]), FenceMarker)}
        openers == {i \in fence : Cardinality({j \in fence : j < i}) % 2 = 0}
        blocks == {<<i, IF \E j \in fence : j > i
                        THEN Min({j \in fence : j > i}) ELSE Len(L)>> : i \in openers}
        long == {b \in blocks : b[2] - b[1] + 1 > 10}
    IN [blocks |-> blocks,
        inside |-> {m \in 1..Len(L) : \E b \in blocks : b[1] <= m /\ m <= b[2]},
        emits |-> {m \in 1..Len(L) : ~\E b \in long : b[1] < m /\ m <= b[2]}]

\* the number of output lines that come before the one input line m stands for
OutOffset(lay, m) == Cardinality({k \in lay.emits : k < m})

FenceTag(line) == LET t == Strip(line) IN Strip(SubSeq(t, 4, Len(t)))
HasIndicator(line) ==
    \/ Contains(line, "def ") \/ Contains(line, "class ") \/ Contains(line, "import ")
    \/ Contains(line, "function ") \/ Contains(line, "{")

\* C5: the normalizer is idempotent: running it on its own output changes
\* nothing.
NormalizerIdempotent == nPc = "twice" => nOut2 = nOut

\* C6: a fenced block of n lines, fences counted, is emitted verbatim when
\* n <= 10, and when n > 10 is replaced by the one line
\* [code block: <label>... (n lines)], <label> being the opening fence's
\* language tag when non-empty and the trimmed first inner line otherwise.
BlocksCollapsedByLength ==
    nPc = "once" =>
        LET L == Split(nIn)
            O == Split(nOut)
            lay == Layout(L)
        IN /\ Len(O) = Cardinality(lay.emits)
           /\ \A b \in lay.blocks :
                LET i == b[1]
                    n == b[2] - b[1] + 1
                    off == OutOffset(lay, i)
                    tag == FenceTag(L[i])
                    label == IF tag # "" THEN tag ELSE Strip(L[i + 1])
                IN IF n <= 10
                   THEN SubSeq(O, off + 1, off + n) = SubSeq(L, i, i + n - 1)
                   ELSE O[off + 1] =
                        "[code block: " \o label \o "... (" \o ToStr(n) \o " lines)]"

\* C6 witness: a block of 11 lines with a bare opening fence has been
\* collapsed, and the text also holds a line outside every block.
WitnessBlockCollapsed ==
    /\ nPc = "once"
    /\ LET L == Split(nIn)
           O == Split(nOut)
           lay == Layout(L)
       IN /\ \E b \in lay.blocks :
                /\ b[2] - b[1] + 1 = 11
                /\ FenceTag(L[b[1]]) = ""
                /\ O[OutOffset(lay, b[1]) + 1] = "[code block: x = 1... (11 lines)]"
          /\ \E m \in 1..Len(L) : m \notin lay.inside

\* C7: a line outside every fenced block is replaced by the file-dump
\* placeholder exactly when it is longer than 500 characters and holds an
\* indicator, and is emitted unchanged otherwise; a line inside a fenced
\* block is never replaced by the placeholder.
LongLinesSuppressed ==
    nPc = "once" =>
        LET L == Split(nIn)
            O == Split(nOut)
            lay == Layout(L)
        IN /\ Len(O) = Cardinality(lay.emits)
           /\ \A m \in lay.emits :
                LET out == O[OutOffset(lay, m) + 1]
                IN IF m \notin lay.inside
                   THEN out = (IF Len(L[m]) > 500 /\ HasIndicator(L[m])
                               THEN "[file dump: long code output stripped]"
                               ELSE L[m])
                   ELSE out # "[file dump: long code output stripped]"

\* C7 witness: a line of 501 characters with an indicator has been replaced
\* and a line of 500 characters with one has been kept, both outside blocks,
\* and a line of 501 characters with one stands inside a block.
WitnessLongLine ==
    /\ nPc = "once"
    /\ LET L == Split(nIn)
           O == Split(nOut)
           lay == Layout(L)
       IN /\ \E m \in lay.emits \ lay.inside :
                /\ Len(L[m]) = 501 /\ HasIndicator(L[m])
                /\ O[OutOffset(lay, m) + 1] = FileDumpLine
          /\ \E m \in lay.emits \ lay.inside :
                /\ Len(L[m]) = 500 /\ HasIndicator(L[m])
                /\ O[OutOffset(lay, m) + 1] = L[m]
          /\ \E m \in lay.inside : Len(L[m]) = 501 /\ HasIndicator(L[m])

\* a line whose trimmed content is the fence marker and nothing else
IsBareFenceLine(line) == Strip(line) = FenceMarker

\* the index of the first bare fence line from i on, or Len(lines) + 1
RECURSIVE NextBareFence(_, _)
NextBareFence(lines, i) ==
    IF i <= Len(lines) /\ ~IsBareFenceLine(lines[i]) THEN NextBareFence(lines, i + 1) ELSE i

\* the lines of the output when a block ends at the next bare fence line
\* only, the rules for blocks and for lines outside blocks being those of
\* C6 and C7
RECURSIVE ClosedByBareFence(_, _, _)
ClosedByBareFence(lines, i, result) ==
    IF i > Len(lines) THEN result
    ELSE IF IsFenceLine(lines[i])
    THEN LET last == Min({NextBareFence(lines, i + 1), Len(lines)})
         IN ClosedByBareFence(lines, last + 1,
                              result \o EmitBlock(SubSeq(lines, i, last)))
    ELSE ClosedByBareFence(lines, i + 1, Append(result, EmitLine(lines[i])))

\* C15: a block opened by a line whose trimmed content starts with the
\* fence marker ends at the next bare fence line only: a later line that
\* starts with the marker and goes on is one of its inner lines; without a
\* bare fence line, the block runs to the end of the text.
BlockClosedByBareFenceOnly ==
    nPc # "in" => nOut = Join(ClosedByBareFence(Split(nIn), 1, <<>>))

(***************************************************************************)
(* SpecSession: one session handed to a fresh converter                    *)
(***************************************************************************)

\* the number of lines of a format A file, and of message files of a
\* format B session, at most
MaxRecords == 2

EarlyStamp == "2024-01-01T10:05:00Z"
LateStamp == "2024-01-01T10:07:30Z"

UserLine(content, timestamp) ==
    Line("object", "user", "object", FALSE, "user", content, Some(timestamp),
         Some("s1"), Some("/proj"))
AssistantLine(content, timestamp) ==
    Line("object", "assistant", "object", FALSE, "assistant", content, Some(timestamp),
         Some("s1"), Some("/proj"))
\* a line that holds no object
BareLine(json) ==
    Line(json, "", "absent", FALSE, "", NullContent, NoneVal, NoneVal, NoneVal)

\* the lines the format A files are made of
LinesA ==
    { BareLine("blank"), BareLine("invalid"), BareLine("array"),
      UserLine(StrContent("hello"), LateStamp),
      UserLine(StrContent("please run <command-name>build</command-name>"), EarlyStamp),
      UserLine(StrContent("   "), EarlyStamp),
      UserLine(ListContent(<<TextBlock("<local-command-stdout>ok</local-command-stdout>")>>),
               EarlyStamp),
      UserLine(ListContent(<<ToolResultBlock>>), EarlyStamp),
      UserLine(ListContent(<<TextBlock(" hi "), ToolUseBlock, TextBlock("there ")>>),
               EarlyStamp),
      UserLine(ListContent(<<ToolResultBlock, SyntheticTextBlock("syn")>>), EarlyStamp),
      UserLine(ListContent(<<NonDictBlock, TextBlockNoText>>), EarlyStamp),
      AssistantLine(ListContent(<<ThinkingBlock, TextBlock("answer")>>), EarlyStamp),
      AssistantLine(StrContent("plain"), EarlyStamp),
      AssistantLine(ListContent(<<ToolUseBlock>>), EarlyStamp),
      Line("object", "system", "object", FALSE, "user", StrContent("notice"),
           Some(EarlyStamp), Some("s1"), NoneVal),
      Line("object", "user", "object", TRUE, "user", StrContent("meta"),
           Some(EarlyStamp), Some("s1"), NoneVal),
      Line("object", "user", "absent", FALSE, "", NullContent,
           Some(EarlyStamp), Some("s1"), NoneVal),
      Line("object", "user", "other", FALSE, "", NullContent,
           Some(EarlyStamp), Some("s1"), NoneVal),
      Line("object", "user", "object", FALSE, "tool", StrContent("tool says"),
           Some(EarlyStamp), Some("s1"), NoneVal),
      Line("object", "user", "object", FALSE, "user", StrContent("untimed"),
           NoneVal, Some("s0"), NoneVal),
      UserLine(StrContent("line one\n" \o Rep("y", SummaryMaxLen - 8)), EarlyStamp),
      UserLine(StrContent(Rep("z", SummaryMaxLen)), EarlyStamp) }

SeqsUpTo(S, n) == UNION { [1..k -> S] : k \in 0..n }

SessionInputsA ==
    { SessionFile(TRUE, TRUE, lines, summary, TRUE) :
        lines \in SeqsUpTo(LinesA, MaxRecords),
        summary \in {NoSummary, StrSummary("Demo"), StrSummary("")} }

TextPart(text, time_start) == PartFile(TRUE, "text", StrText(text), FALSE, time_start)
OtherPart(type) == PartFile(TRUE, type, StrText("inner"), FALSE, NoneInt)
UnloadedPart == PartFile(FALSE, "", AbsentText, FALSE, NoneInt)

Message(id, time_created, role, agent, parts) ==
    MessageFile(TRUE, id, time_created, role, agent, TRUE, parts)

\* the message files the format B sessions are made of
MessagesB ==
    { MessageFile(FALSE, NoneVal, NoneInt, "", "", FALSE, <<>>),
      Message(Some("m1"), SomeInt(120000), "user", "",
              <<TextPart("hey", SomeInt(120000))>>),
      Message(Some("m2"), SomeInt(60000), "user", "", <<OtherPart("tool")>>),
      Message(Some("m3"), SomeInt(90000), "user", "",
              <<TextPart("a", NoneInt), OtherPart("reasoning"),
                TextPart(" b ", SomeInt(60000))>>),
      Message(Some("m4"), SomeInt(61000), "assistant", "Planner-Sisyphus",
              <<TextPart("answer", SomeInt(61000))>>),
      Message(Some("m5"), SomeInt(150000), "assistant", "PLANNER-SISYPHUS",
              <<PartFile(TRUE, "text", StrText("syn"), TRUE, NoneInt),
                TextPart("more", NoneInt)>>),
      Message(Some("m6"), SomeInt(100000), "assistant", "",
              <<UnloadedPart, TextPart("ok", NoneInt)>>),
      Message(Some("m7"), NoneInt, "user", "", <<TextPart("lost", NoneInt)>>),
      Message(NoneVal, SomeInt(30000), "user", "", <<>>),
      MessageFile(TRUE, Some("m8"), SomeInt(30000), "user", "", FALSE, <<>>),
      Message(Some("m9"), SomeInt(70000), "system", "",
              <<TextPart("sys", NoneInt)>>),
      Message(Some("m10"), SomeInt(80000), "user", "",
              <<TextPart("  ", NoneInt), PartFile(TRUE, "text", AbsentText, FALSE, NoneInt)>>),
      Message(Some("m11"), SomeInt(80000), "assistant", "build",
              <<PartFile(TRUE, "text", NullText, FALSE, NoneInt)>>),
      Message(Some("m12"), SomeInt(90000), "user", "",
              <<TextPart("tie", NoneInt)>>) }

SessionInputsB ==
    { SessionJson(TRUE, Some("s2"), NoneVal, title, TRUE, messages, TRUE) :
        messages \in SeqsUpTo(MessagesB, MaxRecords),
        title \in {StrText("Demo"), StrText(""), AbsentText, NullText} }

NoAgents == <<>>

SessionInit ==
    /\ \/ sFmt = "A" /\ sIn \in SessionInputsA
       \/ sFmt = "B" /\ sIn \in SessionInputsB
    /\ sOut = <<>>
    /\ sPc = "in"
    /\ NormIdle /\ RunIdle

\* JSONLConverter(output_dir).convert_jsonl(path)
ConvertOneA ==
    /\ sPc = "in" /\ sFmt = "A"
    /\ sOut' = ConvertJsonl(sIn, {})
    /\ sPc' = "done"
    /\ UNCHANGED <<sFmt, sIn, nvars, rvars>>

\* OpenCodeConverter(output_dir).convert_session(path, storage_dir)
ConvertOneB ==
    /\ sPc = "in" /\ sFmt = "B"
    /\ sOut' = ConvertSession(sIn, {}, NoAgents).out
    /\ sPc' = "done"
    /\ UNCHANGED <<sFmt, sIn, nvars, rvars>>

SessionNext == ConvertOneA \/ ConvertOneB

SpecSession == SessionInit /\ [][SessionNext]_vars

(***************************************************************************)
(* Claims about one session (checked under SpecSession)                    *)
(***************************************************************************)

\* what a conversion shows outside: its return, and the file it wrote
Visible(out) == [ret |-> out.ret, wrote |-> out.wrote, name |-> out.name, doc |-> out.doc]

LoadedOnly(records) == LET Loaded(r) == r.loads IN SelectSeq(records, Loaded)

\* the session without its malformed records: in format A the lines that
\* hold an object, in format B the message and part files that load
WithoutMalformed(session) ==
    IF sFmt = "A"
    THEN LET IsObject(line) == line.json = "object"
         IN [session EXCEPT !.lines = SelectSeq(@, IsObject)]
    ELSE LET ms == LoadedOnly(session.messages)
         IN [session EXCEPT !.messages =
                [i \in 1..Len(ms) |-> [ms[i] EXCEPT !.parts = LoadedOnly(@)]]]

\* C4: a malformed record is skipped alone: the conversion of a session
\* returns and writes what the conversion of the same session without its
\* malformed records (undecodable lines, lines that decode to no object,
\* message and part files that do not load) returns and writes.
MalformedRecordSkippedAlone ==
    sPc = "done" =>
        Visible(sOut) =
            Visible(IF sFmt = "A" THEN ConvertJsonl(WithoutMalformed(sIn), {})
                    ELSE ConvertSession(WithoutMalformed(sIn), {}, NoAgents).out)

\* C8: in format A no user turn of a written document holds a command-tag
\* marker in its text, be the content of its record a string or a list of
\* blocks.
NoCommandMarkerInUserTurns ==
    sPc = "done" /\ sFmt = "A" /\ sOut.wrote =>
        \A i \in 1..Len(sOut.doc.turns) :
            sOut.doc.turns[i].speaker = "User" => ~IsCommandMessage(sOut.doc.turns[i].text)

\* the texts of the blocks of kind text that are not marked synthetic
RECURSIVE PlainTexts(_)
PlainTexts(blocks) ==
    IF blocks = <<>> THEN <<>>
    ELSE LET b == Head(blocks)
         IN (IF b.dict /\ b.type = "text" /\ b.has_text /\ ~b.synthetic
             THEN <<b.text>> ELSE <<>>) \o PlainTexts(Tail(blocks))

\* a format A record of a user or an assistant whose content is a list
IsListRecord(line) ==
    /\ line.json = "object" /\ ~ShouldSkipMessage(line) /\ line.message = "object"
    /\ line.role \in {"user", "assistant"} /\ line.content.t = "list"

\* the turns of records with list contents, by the rule of C9
RECURSIVE PlainTurnsA(_)
PlainTurnsA(lines) ==
    IF lines = <<>> THEN <<>>
    ELSE LET text == Strip(Join(PlainTexts(Head(lines).content.l)))
         IN (IF text = "" THEN <<>> ELSE <<[role |-> Head(lines).role, text |-> text]>>)
                \o PlainTurnsA(Tail(lines))

\* the message files of a session whose parts are read
UsableMessages(session) ==
    { m \in { session.messages[i] : i \in 1..Len(session.messages) } :
        m.loads /\ TruthyInt(m.time_created) /\ Truthy(m.id) /\ m.part_dir }

\* the turns of a format B session, by the rule of C9: one for each part of
\* kind text that is not marked synthetic and has text left after trimming
PlainTurnsB(session) ==
    { [role |-> m.role, text |-> Strip(m.parts[i].text.s)] :
        <<m, i>> \in { <<m, i>> \in UsableMessages(session) \X (1..3) :
                        /\ i <= Len(m.parts) /\ m.parts[i].loads
                        /\ m.parts[i].type = "text" /\ ~m.parts[i].synthetic
                        /\ Strip(m.parts[i].text.s) # "" } }

\* C9: the retained turns are those built from the blocks (parts) of kind
\* text that are not marked synthetic, joined with newlines and trimmed;
\* a message with no such text yields no turn.  Stated for the format A
\* sessions made of records with list contents, and for the format B
\* sessions whose message files were read to the end.
OnlyPlainTextBlocksKept ==
    sPc = "done" /\ sOut.parsed =>
        /\ sFmt = "A" /\ (\A i \in 1..Len(sIn.lines) : IsListRecord(sIn.lines[i])) =>
                [i \in 1..Len(sOut.messages) |->
                    [role |-> sOut.messages[i].role, text |-> sOut.messages[i].text]]
                    = PlainTurnsA(sIn.lines)
        /\ sFmt = "B" =>
                { [role |-> sOut.messages[i].role, text |-> sOut.messages[i].text] :
                    i \in 1..Len(sOut.messages) } = PlainTurnsB(sIn)

(***************************************************************************)
(* Spec: one run of convert_directory on one converter                     *)
(***************************************************************************)

\* the number of session files in the directory, at most
MaxSessions == 2

\* sorted(...) of the paths, a path being its rank among the paths
RECURSIVE SortPaths(_)
SortPaths(paths) ==
    IF paths = <<>> THEN <<>>
    ELSE LET least == Min({ paths[i] : i \in 1..Len(paths) })
             IsOther(q) == q # least
         IN <<least>> \o SortPaths(SelectSeq(paths, IsOther))

\* what glob may return: the paths of the directory, in any order
Globs ==
    { g \in SeqsUpTo(1..MaxSessions, MaxSessions) :
        /\ { g[i] : i \in 1..Len(g) } = 1..Len(g) }

RunLine(role, content, sid) ==
    Line("object", role, "object", FALSE, role, content, Some(EarlyStamp), sid,
         Some("/proj"))

\* the lines of the format A files of a run, sid being their sessionId
RunBodiesA(sid) ==
    { <<RunLine("user", StrContent("hello"), sid),
        RunLine("assistant", ListContent(<<TextBlock("answer")>>), sid)>>,
      <<RunLine("user", StrContent("Hello!"), sid)>>,
      <<RunLine("user", ListContent(<<ToolResultBlock>>), sid)>>,
      <<BareLine("array"), RunLine("user", StrContent("hello"), sid)>> }

RunIds == {Some("s1"), Some("s2")}

\* the format A files of a run
RunFilesA ==
    { SessionFile(TRUE, TRUE, lines, summary, writable) :
        lines \in UNION { RunBodiesA(sid) : sid \in RunIds \cup {NoneVal} },
        summary \in {NoSummary, NumSummary}, writable \in BOOLEAN }
    \cup { SessionFile(TRUE, FALSE, <<>>, NoSummary, TRUE) }

\* the message files of the format B sessions of a run
RunMessagesB ==
    { <<Message(Some("m1"), SomeInt(120000), "user", "",
                <<TextPart("hey", SomeInt(120000))>>)>>,
      <<Message(Some("m4"), SomeInt(61000), "assistant", "Planner-Sisyphus",
                <<TextPart("answer", SomeInt(61000))>>)>>,
      <<Message(Some("m5"), SomeInt(150000), "assistant", "PLANNER-SISYPHUS",
                <<PartFile(TRUE, "text", StrText("syn"), TRUE, NoneInt),
                  TextPart("more", NoneInt)>>)>>,
      <<Message(Some("m2"), SomeInt(60000), "user", "", <<OtherPart("tool")>>)>>,
      <<Message(Some("m6"), SomeInt(100000), "assistant", "",
                <<UnloadedPart, TextPart("ok", NoneInt)>>)>>,
      <<Message(Some("m11"), SomeInt(80000), "assistant", "build",
                <<PartFile(TRUE, "text", NullText, FALSE, NoneInt)>>)>> }

\* the format B sessions of a run
RunSessionsB ==
    { SessionJson(TRUE, id, NoneVal, title, TRUE, messages, writable) :
        id \in RunIds, title \in {StrText("Demo"), StrText("demo!"), NullText},
        messages \in RunMessagesB, writable \in BOOLEAN }
    \cup { SessionJson(FALSE, NoneVal, NoneVal, AbsentText, FALSE, <<>>, TRUE),
           SessionJson(TRUE, Some("s1"), Some("s0"), StrText("Demo"), TRUE,
                       CHOOSE ms \in RunMessagesB : ms[1].id = Some("m1"), TRUE),
           SessionJson(TRUE, NoneVal, NoneVal, StrText("Demo"), FALSE, <<>>, TRUE),
           SessionJson(TRUE, Some("s1"), NoneVal, StrText("Demo"), FALSE, <<>>, TRUE),
           SessionJson(TRUE, Some("s1"), NoneVal, StrText("Demo"), TRUE, <<>>, TRUE) }

\* the state after JSONLConverter(output_dir) or OpenCodeConverter(output_dir)
\* on an empty output directory, convert_directory being called on a
\* directory in which glob finds the paths of discovered
Init ==
    /\ fmt \in {"A", "B"}
    /\ pc = "start"
    /\ discovered \in Globs
    /\ queue = <<>>
    /\ processed_sessions = {}
    /\ agent_case_map = <<>>
    /\ files = <<>>
    /\ count = 0
    /\ results = <<>>
    /\ NormIdle /\ SessionIdle

\* convert_directory up to its loop: no file found, return 0
Discover ==
    /\ pc = "start"
    /\ queue' = SortPaths(discovered)
    /\ pc' = IF discovered = <<>> THEN "done" ELSE "loop"
    /\ UNCHANGED <<fmt, discovered, processed_sessions, agent_case_map, files, count,
                   results, nvars, svars>>

\* the role and the agent of each retained turn, in the order of rendering
TurnSources(messages) ==
    [i \in 1..Len(messages) |->
        [role |-> messages[i].role,
         agent |-> IF "agent" \in DOMAIN messages[i] THEN messages[i].agent ELSE ""]]

\* what one turn of the loop of convert_directory leaves behind.  sid: the
\* session identifier the conversion worked with; sources, speakers: where
\* the retained turns come from, and the labels of the turns written
Attempted(sid, out, agents) ==
    /\ results' = Append(results,
                         [path |-> Head(queue), sid |-> sid, ret |-> out.ret,
                          wrote |-> out.wrote, name |-> out.name,
                          parsed |-> out.parsed, nturns |-> Len(out.messages),
                          sources |-> TurnSources(out.messages),
                          speakers |-> [i \in 1..Len(out.doc.turns) |->
                                            out.doc.turns[i].speaker]])
    /\ processed_sessions' = out.processed
    /\ agent_case_map' = agents
    /\ files' = IF out.wrote THEN (out.name :> out.doc) @@ files ELSE files
    /\ count' = IF out.ret = "true" THEN count + 1 ELSE count
    /\ queue' = Tail(queue)
    /\ pc' = IF out.ret = "raise" THEN "crashed"
             ELSE IF Tail(queue) = <<>> THEN "done" ELSE "loop"
    /\ UNCHANGED <<fmt, discovered, nvars, svars>>

\* JSONLConverter.convert_directory: one turn of its loop
AttemptA ==
    /\ pc = "loop" /\ fmt = "A" /\ queue # <<>>
    /\ \E file \in RunFilesA :
            Attempted(IF file.readable THEN ParseLines(ParseStart, file.lines).session_id
                      ELSE NoneVal,
                      ConvertJsonl(file, processed_sessions), agent_case_map)

\* OpenCodeConverter.convert_directory: one turn of its loop
AttemptB ==
    /\ pc = "loop" /\ fmt = "B" /\ queue # <<>>
    /\ \E session \in RunSessionsB :
            LET r == ConvertSession(session, processed_sessions, agent_case_map)
            IN Attempted(session.id, r.out, r.agents)

Next == Discover \/ AttemptA \/ AttemptB

Spec == Init /\ [][Next]_vars

(***************************************************************************)
(* Claims about a run (checked under Spec)                                 *)
(***************************************************************************)

\* a turn of the loop has been taken
IsAttempt == Len(results') = Len(results) + 1
LastResult == results[Len(results)]

\* the session of this attempt carries the identifier of a session that
\* was converted successfully before
RepeatsConverted(r) ==
    /\ Truthy(r.sid)
    /\ \E j \in 1..Len(results) : results[j].ret = "true" /\ results[j].sid = r.sid

\* C1: once a session with identifier X has been converted successfully,
\* the conversion of every later session of the run with the same
\* identifier returns failure and leaves every output file as it is.
RepeatedSessionSkipped ==
    [][IsAttempt /\ RepeatsConverted(results'[Len(results')]) =>
            /\ results'[Len(results')].ret = "false"
            /\ files' = files]_vars

\* a format A session with retained turns and the identifier of a
\* converted session has been attempted
WitnessRepeatedSession ==
    /\ Len(results) = 2
    /\ results[1].ret = "true" /\ Truthy(results[1].sid)
    /\ results[2].sid = results[1].sid /\ results[2].parsed
    /\ results[2].ret = "false" /\ results[2].nturns > 0
    /\ DOMAIN files = {results[1].name}

\* C2: no successful conversion writes to a file name an earlier
\* successful conversion of the run wrote, so that there are as many
\* output files as successful conversions counted.
OutputsWrittenOnce ==
    /\ \A i, j \in 1..Len(results) :
            i < j /\ results[i].wrote /\ results[j].wrote =>
                results[i].name # results[j].name
    /\ Cardinality(DOMAIN files) = count

\* C3: a run never ends but by returning, after every discovered session
\* has been attempted once, in sorted order, whatever the outcomes; it
\* returns the number of successful conversions.
RunNeverAborted ==
    pc \notin {"start", "loop"} =>
        /\ pc = "done"
        /\ [i \in 1..Len(results) |-> results[i].path] = SortPaths(discovered)
        /\ count = Cardinality({ i \in 1..Len(results) : results[i].ret = "true" })

\* C10: the conversion of a session that yields no retained turn returns
\* failure and leaves every output file as it is; every output file holds
\* a turn with a text that is not empty.
EmptySessionNotMaterialized ==
    [][IsAttempt =>
            /\ LET r == results'[Len(results')]
               IN r.parsed /\ r.nturns = 0 => r.ret = "false" /\ files' = files
            /\ \A name \in DOMAIN files' :
                    \E i \in 1..Len(files'[name].turns) : files'[name].turns[i].text # ""]_vars

\* after a session was written, a session without retained turns has been
\* attempted
WitnessEmptySession ==
    /\ Len(results) = 2
    /\ results[1].wrote
    /\ LastResult.parsed /\ LastResult.nturns = 0 /\ LastResult.ret = "false"
    /\ Cardinality(DOMAIN files) = 1

(***************************************************************************)
(* Further claims about one session (checked under SpecSession)            *)
(***************************************************************************)

\* the retained user turns, in the order of the output
UserTurns(messages) == LET IsUser(m) == m.role = "user" IN SelectSeq(messages, IsUser)

\* the title by the priority of C11.  external: the summary of the sidecar
\* index (format A) or the title of the session file (format B)
TitleByPriority(external, messages) ==
    IF external.t = "str" /\ external.s # "" THEN external.s
    ELSE IF UserTurns(messages) # <<>>
    THEN LET m == UserTurns(messages)[1].text
         IN IF Len(m) > SummaryMaxLen
            THEN Replace(SubSeq(m, 1, SummaryMaxLen), "\n", " ") \o "..."
            ELSE Replace(m, "\n", " ")
    ELSE "Untitled Session"

\* C11: the title of a written document is the external title or summary
\* when present and not empty, else the first 60 characters of the first
\* retained user turn (newlines as spaces, "..." when it was longer), else
\* "Untitled Session"; in format B the header shows it with its slug.
TitleChosenByPriority ==
    sPc = "done" /\ sOut.wrote =>
        sOut.doc.title =
            IF sFmt = "A" THEN TitleByPriority(sIn.summary, sOut.messages)
            ELSE LET title == TitleByPriority(sIn.title, sOut.messages)
                 IN title \o " (" \o SlugOf(title) \o ")"

\* the turn a format A record yields, with the role of the record, or none
LineTurn(line) ==
    LET user == ExtractUserMessage(line)
        assistant == ExtractAssistantMessage(line)
    IN IF line.json # "object" THEN <<>>
       ELSE IF user.some /\ user.v # ""
       THEN <<[role |-> "user", text |-> user.v, source_role |-> line.role]>>
       ELSE IF assistant.some /\ assistant.v # ""
       THEN <<[role |-> "assistant", text |-> assistant.v, source_role |-> line.role]>>
       ELSE <<>>

\* the turns of a format A file in the order of its records
RECURSIVE FileOrder(_)
FileOrder(lines) ==
    IF lines = <<>> THEN <<>> ELSE LineTurn(Head(lines)) \o FileOrder(Tail(lines))

\* the turns of the parts of one message file, in the order of the part
\* files, each with its timestamp: time.start of the part, or time.created
\* of the message when the part has none
RECURSIVE PartTurns(_, _)
PartTurns(m, parts) ==
    IF parts = <<>> THEN <<>>
    ELSE LET p == Head(parts)
             kept == /\ p.loads /\ p.type = "text" /\ ~p.synthetic
                     /\ Strip(p.text.s) # ""
         IN (IF kept
             THEN <<[role |-> m.role, text |-> Strip(p.text.s),
                     timestamp_ms |-> IF TruthyInt(p.time_start) THEN p.time_start.v
                                      ELSE m.time_created.v]>>
             ELSE <<>>) \o PartTurns(m, Tail(parts))

\* the turns of a format B session in load order: message files in sorted
\* order, then part files in sorted order
RECURSIVE LoadOrder(_, _)
LoadOrder(session, ms) ==
    IF ms = <<>> THEN <<>>
    ELSE (IF Head(ms) \in UsableMessages(session) THEN PartTurns(Head(ms), Head(ms).parts)
          ELSE <<>>) \o LoadOrder(session, Tail(ms))

\* the place in the output of the k-th turn in load order: after the turns
\* of a smaller timestamp and the earlier turns of the same timestamp
PlaceByTime(L, k) ==
    1 + Cardinality({ j \in 1..Len(L) :
                        \/ L[j].timestamp_ms < L[k].timestamp_ms
                        \/ L[j].timestamp_ms = L[k].timestamp_ms /\ j < k })

\* C13: the turns of a written document are, in format B, its turns in
\* non-decreasing order of timestamp, turns of equal timestamp in load
\* order; in format A, its turns in the order of the records of the file.
TurnsInFixedOrder ==
    sPc = "done" /\ sOut.wrote =>
        /\ \A i \in 1..Len(sOut.doc.turns) :
                sOut.doc.turns[i].text = CollapseCodeBlocks(sOut.messages[i].text)
        /\ sFmt = "A" =>
                LET L == FileOrder(sIn.lines)
                IN /\ Len(sOut.messages) = Len(L)
                   /\ \A k \in 1..Len(L) :
                        /\ sOut.messages[k].role = L[k].role
                        /\ sOut.messages[k].text = L[k].text
        /\ sFmt = "B" =>
                LET L == LoadOrder(sIn, sIn.messages)
                IN /\ Len(sOut.messages) = Len(L)
                   /\ \A k \in 1..Len(L) :
                        LET turn == sOut.messages[PlaceByTime(L, k)]
                        IN /\ turn.role = L[k].role /\ turn.text = L[k].text
                           /\ turn.timestamp_ms = L[k].timestamp_ms

\* a format B document whose turns are not in load order, two of them of
\* one timestamp
WitnessTurnsOrdered ==
    /\ sPc = "done" /\ sFmt = "B" /\ sOut.wrote
    /\ Len(sOut.messages) = 3
    /\ sOut.messages[1].timestamp_ms < sOut.messages[2].timestamp_ms
    /\ sOut.messages[2].timestamp_ms = sOut.messages[3].timestamp_ms
    /\ sOut.messages[2].text # sOut.messages[3].text
    /\ LoadOrder(sIn, sIn.messages)[1].text = sOut.messages[2].text

\* the label of a turn fits the role of the record it comes from
LabelFitsRole(speaker, role) ==
    /\ role \in {"user", "assistant"}
    /\ speaker = "User" <=> role = "user"
    /\ StartsWith(speaker, "Assistant") => role = "assistant"

\* C14: every turn of a written document comes from a record whose role is
\* user or assistant; it is labelled User exactly when the role is user,
\* and Assistant (with or without an agent) only when the role is
\* assistant.
TurnsOnlyFromUserOrAssistant ==
    sPc = "done" /\ sOut.wrote =>
        /\ sFmt = "A" =>
                LET L == FileOrder(sIn.lines)
                IN \A k \in 1..Len(L) :
                        LabelFitsRole(sOut.doc.turns[k].speaker, L[k].source_role)
        /\ sFmt = "B" =>
                LET L == LoadOrder(sIn, sIn.messages)
                IN \A k \in 1..Len(L) :
                        LabelFitsRole(sOut.doc.turns[PlaceByTime(L, k)].speaker, L[k].role)

(***************************************************************************)
(* Further claims about a run (checked under Spec)                         *)
(***************************************************************************)

\* the turns the run has rendered so far that are not user turns, in the
\* order of rendering: those of the sessions that reached the rendering
\* loop, whether their file could be written or not
RECURSIVE RenderedAgents(_)
RenderedAgents(rs) ==
    IF rs = <<>> THEN <<>>
    ELSE LET r == rs[Len(rs)]
             NotUser(t) == t.role # "user"
         IN RenderedAgents(SubSeq(rs, 1, Len(rs) - 1))
                \o (IF r.parsed /\ r.ret # "raise"
                    THEN SelectSeq(r.sources, NotUser) ELSE <<>>)

\* the last segment of the agent identifier of the first turn rendered
\* whose last segment is this one up to letter case
FirstCasing(rs, agent) ==
    LET seen == RenderedAgents(rs)
        same == { i \in 1..Len(seen) :
                    /\ seen[i].agent # ""
                    /\ Lower(LastSegment(seen[i].agent)) = Lower(LastSegment(agent)) }
    IN LastSegment(seen[Min(same)].agent)

\* every assistant turn written in the attempts rs is labelled with the
\* first casing
AssistantLabelsUseFirstCasing(rs) ==
    \A k \in 1..Len(rs) :
        \A i \in 1..Len(rs[k].speakers) :
            LET agent == rs[k].sources[i].agent
                first == IF agent = "" THEN "" ELSE FirstCasing(rs, agent)
            IN rs[k].sources[i].role # "user" =>
                    rs[k].speakers[i] =
                        IF first = "" THEN "Assistant"
                        ELSE "Assistant (" \o first \o ")"

\* C12: in format B, the assistant turns of a run whose agent identifiers
\* end in the same segment up to letter case carry the same label
\* "Assistant (<name>)", the name in the casing of the first of them
\* rendered; an entry of the agent-casing map is never changed; an empty
\* agent identifier gives "Assistant".
AgentCasingFirstSeenWins ==
    [][fmt = "B" =>
            /\ \A key \in DOMAIN agent_case_map :
                    key \in DOMAIN agent_case_map'
                        /\ agent_case_map'[key] = agent_case_map[key]
            /\ AssistantLabelsUseFirstCasing(results')]_vars

\* two written sessions have assistant turns whose agent identifiers
\* differ in case only, and both carry the label of the first
WitnessAgentCasing ==
    /\ fmt = "B" /\ Len(results) = 2
    /\ results[1].wrote /\ results[2].wrote
    /\ \E i \in 1..Len(results[1].speakers), j \in 1..Len(results[2].speakers) :
            /\ results[1].sources[i].agent = "PLANNER-SISYPHUS"
            /\ results[2].sources[j].agent = "Planner-Sisyphus"
            /\ results[1].speakers[i] = "Assistant (SISYPHUS)"
            /\ results[2].speakers[j] = "Assistant (SISYPHUS)"
    /\ agent_case_map = ("sisyphus" :> "SISYPHUS")

====
